---- MODULE Spec2Model ----
(***************************************************************************)
(* A model of pynat: the asyncore port forwarder (port_forwarding.py) and  *)
(* its out-of-band terminator (port_forwarding_terminator.py).             *)
(*                                                                         *)
(* Every action of the I/O part is one callback that asyncore's loop       *)
(* dispatches (handle_accept, handle_read, handle_write), run to its end,  *)
(* or one step of a peer / of the operating system.  The loop life cycle   *)
(* (ensure_io_loop_runs and the thread running asyncore.loop) is modelled  *)
(* step by step, one action per statement that another thread can          *)
(* interleave with.                                                        *)
(***************************************************************************)
EXTENDS Integers, Sequences, FiniteSets, TLC

\* ------------------------------------------------------------- bounds
MaxSecretLen == 2   \* longest secret tried
MaxExtra == 1       \* bytes a control peer may send beyond the secret's length
MaxConns == 2       \* control connections accepted in a run
MaxPairs == 2       \* forwarded connections accepted in a run
MaxConnsAll == 1    \* control connections in a run with forwarded data (Spec)
MaxPairsAll == 1    \* forwarded connections in a run with control connections (Spec)
MaxData == 1        \* bytes each peer of a forwarded connection sends
MaxDataOne == 2     \* the same in a run with a single forwarded connection (SpecBuffer)
MaxPending == 1     \* connections waiting in a listening socket's queue
Bufsize == 2        \* the bufsize argument (4096 by default), scaled down
MaxStarters == 2    \* threads constructing a PortForwarding concurrently
MaxPort == 3        \* the ports of local_ip are 1..MaxPort

Bytes == {1, 2}

VARIABLES
    secret,       \* PortForwardingTerminator.socket_secret
    forwarding,   \* the PortForwarding dispatcher: "listening" or "closed"
    terminator,   \* the PortForwardingTerminator dispatcher: "listening" or "closed"
    sockfile,     \* TRUE while socket_path exists in the filesystem
    fwdPending,   \* connections waiting in the forwarding socket's accept queue
    termPending,  \* connections waiting in the UNIX socket's accept queue
    conns,        \* the ConnectionToTerminator objects, in order of creation
    pairs,        \* per accepted client: ConnectionToClient, ConnectionToRemoteHost, ForwardingBuffers
    order,        \* the dispatchers closed by the latest handle_read of a ConnectionToTerminator, in order
    shutdowns,    \* how often PortForwardingTerminator.handle_close has been called
    fwdGone,      \* how often accept() of the PortForwarding has returned None
    termGone,     \* how often accept() of the PortForwardingTerminator has returned None
    socket_map,      \* asyncore.socket_map: the dispatchers the loop polls (loop life cycle)
    IO_LOOP_THREAD,  \* PortForwarding.IO_LOOP_THREAD: 0 for None, or a thread
    threads,         \* the threads created with target=loop, in order of creation
    starters,        \* the threads constructing a PortForwarding: where each is, and its local `thread`
    inUse,           \* the ports of local_ip that other sockets are bound to (bind part)
    binder           \* PortForwarding.__init__ binding its socket: where it is, and the socket (bind part)

ioVars == <<secret, forwarding, terminator, sockfile, fwdPending, termPending,
            conns, pairs, order, shutdowns, fwdGone, termGone>>

loopVars == <<socket_map, IO_LOOP_THREAD, threads, starters>>

bindVars == <<inUse, binder>>

vars == <<secret, forwarding, terminator, sockfile, fwdPending, termPending,
          conns, pairs, order, shutdowns, fwdGone, termGone,
          socket_map, IO_LOOP_THREAD, threads, starters, inUse, binder>>

\* ------------------------------------------------------------ helpers
Min(a, b) == IF a < b THEN a ELSE b

Take(s, k) == SubSeq(s, 1, k)

Drop(s, k) == SubSeq(s, k + 1, Len(s))

IsPrefix(s, t) == Len(s) <= Len(t) /\ Take(t, Len(s)) = s

IsStrictPrefix(s, t) == Len(s) < Len(t) /\ Take(t, Len(s)) = s

SeqsUpTo(S, n) == UNION {[1..k -> S] : k \in 0..n}

\* The secrets tried: non-empty, and starting with byte 1 (any other secret is
\* one of these with the two byte values renamed).
Secrets == {s \in SeqsUpTo(Bytes, MaxSecretLen) : s # <<>> /\ s[1] = 1}

\* --------------------------------------------- the dispatchers one callback can reach
\* The listening dispatchers and the filesystem entry as one callback sees and
\* changes them; exc is TRUE once a statement of the callback has raised.
World == [forwarding |-> forwarding, terminator |-> terminator,
          sockfile |-> sockfile, pairs |-> pairs, order |-> <<>>, exc |-> FALSE,
          shutdowns |-> shutdowns]

\* Mutant: closing the listener also closes the forwarded connections.
PortForwarding_close_with_connections(w) ==
    [w EXCEPT !.forwarding = "closed",
              !.pairs = [p \in DOMAIN w.pairs |->
                           [w.pairs[p] EXCEPT !.client = "closed", !.remote = "closed"]]]

\* dispatcher.close() of the PortForwarding: the listening socket, nothing else.
PortForwarding_close(w) == [w EXCEPT !.forwarding = "closed"]

\* PortForwarding.handle_close: the debug() argument calls getsockname(), which
\* raises on a socket that is already closed; then close().
PortForwarding_handle_close(w) ==
    IF w.exc THEN w
    ELSE IF w.forwarding = "closed" THEN [w EXCEPT !.exc = TRUE]
    ELSE [PortForwarding_close(w) EXCEPT !.order = Append(@, "PortForwarding")]

\* PortForwardingTerminator.handle_close: getsockname() (raises when closed),
\* remove(sockname) (raises when the path is gone), close().
PortForwardingTerminator_handle_close(w) ==
    IF w.exc THEN w
    ELSE IF w.terminator = "closed"
    THEN [w EXCEPT !.exc = TRUE, !.shutdowns = @ + 1]
    ELSE IF ~w.sockfile
    THEN [w EXCEPT !.exc = TRUE, !.shutdowns = @ + 1]
    ELSE [w EXCEPT !.sockfile = FALSE, !.terminator = "closed",
                   !.order = Append(@, "PortForwardingTerminator"),
                   !.shutdowns = @ + 1]

\* obj.handle_close() for a listening dispatcher held by reference.
handle_close(obj, w) ==
    IF obj = "PortForwarding" THEN PortForwarding_handle_close(w)
    ELSE PortForwardingTerminator_handle_close(w)

\* ------------------------------------------------ ConnectionToTerminator
\* ConnectionToTerminator.__init__, with its parameters in the order of the def.
\* wire and eof are the connection's socket: bytes received but not yet read,
\* and whether the peer has closed its end; reads counts the handle_read
\* callbacks in which recv() returned data.
ConnectionToTerminator(connection, the_secret, close_listener, forwarding_listener, bufsize) ==
    [state |-> "open", secret |-> the_secret,
     close_listener |-> close_listener,
     forwarding_listener |-> forwarding_listener,
     bufsize |-> bufsize, recv_buf |-> <<>>,
     wire |-> connection.wire, eof |-> connection.eof, reads |-> 0]

\* ConnectionToTerminator.handle_close: close(); the socket's unread bytes go with it.
ConnectionToTerminator_handle_close(c) ==
    [c EXCEPT !.state = "closed", !.wire = <<>>]

\* Mutant: the matching branch forgets self.close_listener.handle_close().
SecretMatched_one_listener(c, w) ==
    [conn |-> ConnectionToTerminator_handle_close(c),
     w |-> [handle_close(c.forwarding_listener, w) EXCEPT
               !.order = Append(@, "ConnectionToTerminator")]]

\* The branch of handle_read taken when recv_buf equals the secret: the two
\* listeners' handle_close in the order of the statements, then its own.  A raise
\* in one of them ends the callback in dispatcher.handle_error, which calls this
\* connection's handle_close.
SecretMatched(c, w) ==
    LET w1 == handle_close(c.forwarding_listener, w)
        w2 == handle_close(c.close_listener, w1)
    IN [conn |-> ConnectionToTerminator_handle_close(c),
        w |-> [w2 EXCEPT !.order = Append(@, "ConnectionToTerminator")]]

\* Mutant: the secret is compared first, and as a prefix of the input.
ConnectionToTerminator_handle_read_prefix(c, recv, w) ==
    LET c1 == [c EXCEPT !.recv_buf = @ \o recv] IN
    IF IsPrefix(c1.secret, c1.recv_buf)
    THEN SecretMatched(c1, w)
    ELSE IF Len(c1.recv_buf) > Len(c1.secret)
    THEN [conn |-> ConnectionToTerminator_handle_close(c1),
          w |-> [w EXCEPT !.order = Append(@, "ConnectionToTerminator")]]
    ELSE [conn |-> c1, w |-> w]

\* Mutant: input that cannot become the secret any more is rejected at once.
ConnectionToTerminator_handle_read_strict(c, recv, w) ==
    LET c1 == [c EXCEPT !.recv_buf = @ \o recv] IN
    IF c1.secret = c1.recv_buf
    THEN SecretMatched(c1, w)
    ELSE IF ~IsPrefix(c1.recv_buf, c1.secret)
    THEN [conn |-> ConnectionToTerminator_handle_close(c1),
          w |-> [w EXCEPT !.order = Append(@, "ConnectionToTerminator")]]
    ELSE [conn |-> c1, w |-> w]

\* Mutant: at the end of the stream, input that is a prefix of the secret counts
\* as the secret.
ConnectionToTerminator_handle_read_eof_matches(c, recv, w) ==
    LET c1 == [c EXCEPT !.recv_buf = @ \o recv] IN
    IF Len(c1.recv_buf) > Len(c1.secret)
    THEN [conn |-> ConnectionToTerminator_handle_close(c1),
          w |-> [w EXCEPT !.order = Append(@, "ConnectionToTerminator")]]
    ELSE IF c1.secret = c1.recv_buf \/ (recv = <<>> /\ IsPrefix(c1.recv_buf, c1.secret))
    THEN SecretMatched(c1, w)
    ELSE [conn |-> c1, w |-> w]

\* ConnectionToTerminator.handle_read after recv() has returned `recv`.
ConnectionToTerminator_handle_read(c, recv, w) ==
    LET c1 == [c EXCEPT !.recv_buf = @ \o recv] IN
    IF Len(c1.recv_buf) > Len(c1.secret)
    THEN [conn |-> ConnectionToTerminator_handle_close(c1),
          w |-> [w EXCEPT !.order = Append(@, "ConnectionToTerminator")]]
    ELSE IF c1.secret = c1.recv_buf
    THEN SecretMatched(c1, w)
    ELSE [conn |-> c1, w |-> w]

\* ConnectionToTerminator.writable: return False
ConnectionToTerminator_writable(c) == FALSE

\* PortForwardingTerminator.handle_accept once accept() has returned a connection:
\* the arguments in the order of the call.
PortForwardingTerminator_new_connection(connection) ==
    ConnectionToTerminator(connection, secret, "PortForwarding",
                           "PortForwardingTerminator", Bufsize)

\* -------------------------------------------------- the forwarded connections
\* What PortForwarding.handle_accept builds for one accepted client:
\* ForwardingBuffers (to_client, to_remote_host), ConnectionToClient (client,
\* client_buddy) and ConnectionToRemoteHost (remote, remote_buddy).  rsock is the
\* outbound connection in the kernel: "pending", "established" or "failed".
\* cWire / rWire hold the bytes a peer has sent and recv() has not yet returned,
\* cEof / rEof whether the peer has closed its end, cSent / rSent how many bytes
\* the peer has sent (it sends 1, 2, 3, ...), cGot / rGot what send() has handed
\* to the client's and to the remote host's transport; cause names the event
\* that closed the pair.
NewPair(wired, rsock) ==
    [client |-> "open", remote |-> "open", rsock |-> rsock,
     client_buddy |-> IF wired THEN "to_remote_host" ELSE "None",
     remote_buddy |-> IF wired THEN "to_client" ELSE "None",
     to_client |-> <<>>, to_remote_host |-> <<>>,
     cWire |-> <<>>, rWire |-> <<>>, cEof |-> FALSE, rEof |-> FALSE,
     cSent |-> 0, rSent |-> 0, cGot |-> <<>>, rGot |-> <<>>,
     cause |-> "none"]

\* dispatcher.close() of the client-side endpoint; its socket's unread bytes go with it.
CloseClient(pr) == [pr EXCEPT !.client = "closed", !.cWire = <<>>]

\* dispatcher.close() of the remote-side endpoint.
CloseRemote(pr) == [pr EXCEPT !.remote = "closed", !.rWire = <<>>]

\* Whether ConnectionToClient.handle_close raises: the argument of its first
\* debug() calls self.getsockname(), which raises on a closed socket.
ConnectionToClient_handle_close_raises(pr) == pr.client = "closed"

\* Whether ConnectionToRemoteHost.handle_close raises, for the same reason.
ConnectionToRemoteHost_handle_close_raises(pr) == pr.remote = "closed"

\* Mutant: before the buddy is closed, what is buffered for it is sent.
ConnectionToClient_handle_close_drains(pr) ==
    LET p1 == CloseClient(pr) IN
    IF p1.client_buddy # "None"
    THEN CloseRemote([p1 EXCEPT !.rGot = @ \o p1.to_remote_host,
                               !.to_remote_host = <<>>])
    ELSE p1

\* Mutant: the client-side endpoint closes without closing its buddy.
ConnectionToClient_handle_close_alone(pr) == CloseClient(pr)

\* ConnectionToClient.handle_close: close(), then buddy.close() if there is a buddy.
ConnectionToClient_handle_close(pr) ==
    LET p1 == CloseClient(pr) IN
    IF p1.client_buddy # "None" THEN CloseRemote(p1) ELSE p1

\* Mutant: the remote-side endpoint closes without closing its buddy.
ConnectionToRemoteHost_handle_close_alone(pr) == CloseRemote(pr)

\* ConnectionToRemoteHost.handle_close: close(), then buddy.close() if there is a buddy.
ConnectionToRemoteHost_handle_close(pr) ==
    LET p1 == CloseRemote(pr) IN
    IF p1.remote_buddy # "None" THEN CloseClient(p1) ELSE p1

\* ConnectionToClient.handle_read with recv() returning `read`: client --> buffer.
ConnectionToClient_handle_read(pr, read) ==
    [pr EXCEPT !.to_remote_host = @ \o read]

\* ConnectionToRemoteHost.handle_read with recv() returning `read`: buffer <-- remote host.
ConnectionToRemoteHost_handle_read(pr, read) ==
    [pr EXCEPT !.to_client = @ \o read]

\* Mutant: dispatcher's own writable(), which always returns True.
ConnectionToClient_writable_always(pr) == TRUE

\* ConnectionToClient.writable
ConnectionToClient_writable(pr) == Len(pr.to_client) > 0

\* ConnectionToRemoteHost.writable
ConnectionToRemoteHost_writable(pr) == Len(pr.to_remote_host) > 0

\* ConnectionToClient.handle_write with send() accepting sent_count bytes: client <-- buffer.
ConnectionToClient_handle_write(pr, sent_count) ==
    [pr EXCEPT !.cGot = @ \o Take(pr.to_client, sent_count),
               !.to_client = Drop(@, sent_count)]

\* Mutant: the buffer is emptied whatever send() has accepted.
ConnectionToRemoteHost_handle_write_clears(pr, sent) ==
    [pr EXCEPT !.rGot = @ \o Take(pr.to_remote_host, sent),
               !.to_remote_host = <<>>]

\* ConnectionToRemoteHost.handle_write with send() accepting `sent` bytes: buffer --> remote host.
ConnectionToRemoteHost_handle_write(pr, sent) ==
    [pr EXCEPT !.rGot = @ \o Take(pr.to_remote_host, sent),
               !.to_remote_host = Drop(@, sent)]

\* Mutant: an accept() that returns None is treated as an error of the listener.
PortForwarding_handle_accept_none_closes(w) == PortForwarding_handle_close(w)

\* PortForwarding.handle_accept when accept() has returned None: return.
PortForwarding_handle_accept_none(w) == w

\* PortForwardingTerminator.handle_accept when accept() has returned None: return.
PortForwardingTerminator_handle_accept_none(w) == w

\* PortForwarding.handle_accept once accept() has returned a connection.  With
\* "in_progress" the outbound connect() returns and both buddy_dispatcher
\* attributes are set; with "raises" connect() raises inside
\* ConnectionToRemoteHost.__init__, after both dispatchers have registered, the
\* two assignments are never reached, and dispatcher.handle_error calls
\* PortForwarding.handle_close.
PortForwarding_handle_accept(connect, w) ==
    IF connect = "in_progress"
    THEN [pair |-> NewPair(TRUE, "pending"), w |-> w]
    ELSE [pair |-> NewPair(FALSE, "failed"), w |-> PortForwarding_handle_close(w)]

\* ================================================================ I/O part
InitLoopIdle ==
    /\ socket_map = {}
    /\ IO_LOOP_THREAD = 0
    /\ threads = <<>>
    /\ starters = [s \in 1..MaxStarters |-> [pc |-> "idle", thread |-> 0]]

\* No PortForwarding is being constructed in the bind part.
InitBindIdle ==
    /\ inUse = {}
    /\ binder = [pc |-> "none", preferred_local_port |-> 0, port |-> 0,
                 registered |-> FALSE]

Init ==
    /\ secret \in Secrets
    /\ forwarding = "listening"
    /\ terminator = "listening"
    /\ sockfile = TRUE
    /\ fwdPending = 0
    /\ termPending = 0
    /\ conns = <<>>
    /\ pairs = <<>>
    /\ order = <<>>
    /\ shutdowns = 0
    /\ fwdGone = 0
    /\ termGone = 0
    /\ InitLoopIdle
    /\ InitBindIdle

\* ---- peers of the forwarding port
\* A client connects to the forwarding port (the limit-th connection at most).
ClientConnects(limit) ==
    /\ forwarding = "listening"
    /\ fwdPending < MaxPending
    /\ Len(pairs) + fwdPending + fwdGone < limit
    /\ fwdPending' = fwdPending + 1
    /\ UNCHANGED <<secret, forwarding, terminator, sockfile, termPending, conns, pairs, order, shutdowns, fwdGone, termGone>>
    /\ UNCHANGED loopVars
    /\ UNCHANGED bindVars

\* The loop dispatches PortForwarding.handle_accept and accept() returns None.
ForwardingAcceptsNothing ==
    /\ forwarding = "listening"
    /\ fwdPending > 0
    /\ fwdPending' = fwdPending - 1
    /\ fwdGone' = fwdGone + 1
    /\ forwarding' = PortForwarding_handle_accept_none(World).forwarding
    /\ pairs' = PortForwarding_handle_accept_none(World).pairs
    /\ UNCHANGED <<secret, terminator, sockfile, termPending, conns, order, shutdowns, termGone>>
    /\ UNCHANGED loopVars
    /\ UNCHANGED bindVars

\* The loop dispatches PortForwarding.handle_accept and accept() returns a connection.
ForwardingAccepts ==
    /\ forwarding = "listening"
    /\ fwdPending > 0
    /\ \E connect \in {"in_progress", "raises"} :
          LET r == PortForwarding_handle_accept(connect, World) IN
          /\ pairs' = Append(r.w.pairs, r.pair)
          /\ forwarding' = r.w.forwarding
    /\ fwdPending' = fwdPending - 1
    /\ UNCHANGED <<secret, terminator, sockfile, termPending, conns, order, shutdowns, fwdGone, termGone>>
    /\ UNCHANGED loopVars
    /\ UNCHANGED bindVars

\* The owner of the PortForwarding calls forwarding.close().
ForwardingClosedByOwner ==
    /\ forwarding = "listening"
    /\ forwarding' = PortForwarding_close(World).forwarding
    /\ pairs' = PortForwarding_close(World).pairs
    /\ UNCHANGED <<secret, terminator, sockfile, fwdPending, termPending, conns, order, shutdowns, fwdGone, termGone>>
    /\ UNCHANGED loopVars
    /\ UNCHANGED bindVars

SetPair(p, pr) ==
    /\ pairs' = [pairs EXCEPT ![p] = pr]
    /\ UNCHANGED <<secret, forwarding, terminator, sockfile, fwdPending, termPending, conns, order, shutdowns, fwdGone, termGone>>
    /\ UNCHANGED loopVars
    /\ UNCHANGED bindVars

\* The outbound connection is established, or fails.
RemoteConnectCompletes(p) ==
    /\ pairs[p].remote = "open"
    /\ pairs[p].rsock = "pending"
    /\ \E res \in {"established", "failed"} :
          SetPair(p, [pairs[p] EXCEPT !.rsock = res])

\* The client sends its next byte (the limit-th at most).
ClientSends(p, limit) ==
    /\ pairs[p].client = "open"
    /\ ~pairs[p].cEof
    /\ pairs[p].cSent < limit
    /\ SetPair(p, [pairs[p] EXCEPT !.cSent = @ + 1, !.cWire = Append(@, pairs[p].cSent + 1)])

\* The client closes its end.
ClientShutsDown(p) ==
    /\ pairs[p].client = "open"
    /\ ~pairs[p].cEof
    /\ SetPair(p, [pairs[p] EXCEPT !.cEof = TRUE])

\* The remote host sends its next byte (the limit-th at most).
RemoteSends(p, limit) ==
    /\ pairs[p].remote = "open"
    /\ pairs[p].rsock = "established"
    /\ ~pairs[p].rEof
    /\ pairs[p].rSent < limit
    /\ SetPair(p, [pairs[p] EXCEPT !.rSent = @ + 1, !.rWire = Append(@, pairs[p].rSent + 1)])

\* The remote host closes its end.
RemoteShutsDown(p) ==
    /\ pairs[p].remote = "open"
    /\ pairs[p].rsock = "established"
    /\ ~pairs[p].rEof
    /\ SetPair(p, [pairs[p] EXCEPT !.rEof = TRUE])

\* ---- callbacks of the forwarded connections
\* handle_read of the ConnectionToClient: recv() returns up to bufsize bytes.
ClientRead(p) ==
    /\ pairs[p].client = "open"
    /\ pairs[p].cWire # <<>>
    /\ \E k \in 1..Min(Bufsize, Len(pairs[p].cWire)) :
          SetPair(p, ConnectionToClient_handle_read(
                        [pairs[p] EXCEPT !.cWire = Drop(@, k)], Take(pairs[p].cWire, k)))

\* handle_read of the ConnectionToClient at the end of the stream: recv() calls
\* handle_close and returns the empty string.
ClientReadEof(p) ==
    /\ pairs[p].client = "open"
    /\ pairs[p].cWire = <<>>
    /\ pairs[p].cEof
    /\ SetPair(p, ConnectionToClient_handle_read(
                     ConnectionToClient_handle_close([pairs[p] EXCEPT !.cause = "client_eof"]), <<>>))

\* A callback of the ConnectionToClient whose recv() or send() fails: handle_close,
\* called by recv/send for a disconnect and by handle_error for anything else.
ClientFails(p) ==
    /\ pairs[p].client = "open"
    /\ SetPair(p, ConnectionToClient_handle_close([pairs[p] EXCEPT !.cause = "client_error"]))

\* handle_write of the ConnectionToClient: send() accepts sent_count bytes.
ClientWrite(p) ==
    /\ pairs[p].client = "open"
    /\ ConnectionToClient_writable(pairs[p])
    /\ \E sent_count \in 0..Len(pairs[p].to_client) :
          SetPair(p, ConnectionToClient_handle_write(pairs[p], sent_count))

\* handle_read of the ConnectionToRemoteHost.
RemoteRead(p) ==
    /\ pairs[p].remote = "open"
    /\ pairs[p].rsock = "established"
    /\ pairs[p].rWire # <<>>
    /\ \E k \in 1..Min(Bufsize, Len(pairs[p].rWire)) :
          SetPair(p, ConnectionToRemoteHost_handle_read(
                        [pairs[p] EXCEPT !.rWire = Drop(@, k)], Take(pairs[p].rWire, k)))

\* handle_read of the ConnectionToRemoteHost at the end of the stream.
RemoteReadEof(p) ==
    /\ pairs[p].remote = "open"
    /\ pairs[p].rsock = "established"
    /\ pairs[p].rWire = <<>>
    /\ pairs[p].rEof
    /\ SetPair(p, ConnectionToRemoteHost_handle_read(
                     ConnectionToRemoteHost_handle_close([pairs[p] EXCEPT !.cause = "remote_eof"]), <<>>))

\* A callback of the ConnectionToRemoteHost whose recv() or send() fails, or the
\* first callback after the outbound connect has failed (handle_connect_event raises).
RemoteFails(p) ==
    /\ pairs[p].remote = "open"
    /\ pairs[p].rsock # "pending"
    /\ SetPair(p, ConnectionToRemoteHost_handle_close(
                     [pairs[p] EXCEPT !.cause = IF pairs[p].rsock = "failed"
                                                THEN "connect_failed" ELSE "remote_error"]))

\* handle_write of the ConnectionToRemoteHost: send() accepts `sent` bytes.
RemoteWrite(p) ==
    /\ pairs[p].remote = "open"
    /\ pairs[p].rsock = "established"
    /\ ConnectionToRemoteHost_writable(pairs[p])
    /\ \E sent \in 0..Len(pairs[p].to_remote_host) :
          SetPair(p, ConnectionToRemoteHost_handle_write(pairs[p], sent))

\* ---- peers of the UNIX socket, and the filesystem
\* A process connects to socket_path.
PeerConnects(limit) ==
    /\ terminator = "listening"
    /\ sockfile
    /\ termPending < MaxPending
    /\ Len(conns) + termPending + termGone < limit
    /\ termPending' = termPending + 1
    /\ UNCHANGED <<secret, forwarding, terminator, sockfile, fwdPending, conns, pairs, order, shutdowns, fwdGone, termGone>>
    /\ UNCHANGED loopVars
    /\ UNCHANGED bindVars

\* Another process removes socket_path.
PathRemoved ==
    /\ terminator = "listening"
    /\ sockfile
    /\ sockfile' = FALSE
    /\ UNCHANGED <<secret, forwarding, terminator, fwdPending, termPending, conns, pairs, order, shutdowns, fwdGone, termGone>>
    /\ UNCHANGED loopVars
    /\ UNCHANGED bindVars

SetConn(i, c) ==
    /\ conns' = [conns EXCEPT ![i] = c]
    /\ UNCHANGED <<secret, forwarding, terminator, sockfile, fwdPending, termPending, pairs, order, shutdowns, fwdGone, termGone>>
    /\ UNCHANGED loopVars
    /\ UNCHANGED bindVars

\* The peer of a control connection sends one more byte.
PeerSends(i) ==
    /\ conns[i].state = "open"
    /\ ~conns[i].eof
    /\ Len(conns[i].recv_buf) + Len(conns[i].wire) < Len(secret) + MaxExtra
    /\ \E b \in Bytes : SetConn(i, [conns[i] EXCEPT !.wire = Append(@, b)])

\* The peer of a control connection closes its end.
PeerShutsDown(i) ==
    /\ conns[i].state = "open"
    /\ ~conns[i].eof
    /\ SetConn(i, [conns[i] EXCEPT !.eof = TRUE])

\* ---- callbacks of the terminator
\* The loop dispatches PortForwardingTerminator.handle_accept and accept() returns None.
TerminatorAcceptsNothing ==
    /\ terminator = "listening"
    /\ termPending > 0
    /\ termPending' = termPending - 1
    /\ termGone' = termGone + 1
    /\ terminator' = PortForwardingTerminator_handle_accept_none(World).terminator
    /\ sockfile' = PortForwardingTerminator_handle_accept_none(World).sockfile
    /\ UNCHANGED <<secret, forwarding, fwdPending, conns, pairs, order, shutdowns, fwdGone>>
    /\ UNCHANGED loopVars
    /\ UNCHANGED bindVars

\* The loop dispatches PortForwardingTerminator.handle_accept and accept() returns a connection.
TerminatorAccepts ==
    /\ terminator = "listening"
    /\ termPending > 0
    /\ termPending' = termPending - 1
    /\ conns' = Append(conns, PortForwardingTerminator_new_connection([wire |-> <<>>, eof |-> FALSE]))
    /\ UNCHANGED <<secret, forwarding, terminator, sockfile, fwdPending, pairs, order, shutdowns, fwdGone, termGone>>
    /\ UNCHANGED loopVars
    /\ UNCHANGED bindVars

\* The outcome of one handle_read of control connection i becomes the state.
AfterRead(i, r) ==
    /\ conns' = [conns EXCEPT ![i] = r.conn]
    /\ forwarding' = r.w.forwarding
    /\ terminator' = r.w.terminator
    /\ sockfile' = r.w.sockfile
    /\ order' = r.w.order
    /\ pairs' = r.w.pairs
    /\ shutdowns' = r.w.shutdowns
    /\ UNCHANGED <<secret, fwdPending, termPending, fwdGone, termGone>>
    /\ UNCHANGED loopVars
    /\ UNCHANGED bindVars

\* handle_read of a ConnectionToTerminator: recv() returns up to bufsize bytes.
ConnRead(i) ==
    /\ conns[i].state = "open"
    /\ conns[i].wire # <<>>
    /\ \E k \in 1..Min(conns[i].bufsize, Len(conns[i].wire)) :
          AfterRead(i, ConnectionToTerminator_handle_read(
                          [conns[i] EXCEPT !.wire = Drop(@, k), !.reads = @ + 1],
                          Take(conns[i].wire, k), World))

\* handle_read of a ConnectionToTerminator at the end of the stream: recv() calls
\* handle_close and returns the empty string.
ConnReadEof(i) ==
    /\ conns[i].state = "open"
    /\ conns[i].wire = <<>>
    /\ conns[i].eof
    /\ AfterRead(i, ConnectionToTerminator_handle_read(
                       ConnectionToTerminator_handle_close(conns[i]), <<>>,
                       [World EXCEPT !.order = <<"ConnectionToTerminator">>]))

\* The forwarder with its terminator, one forwarded and one control connection.
Next ==
    \/ ClientConnects(MaxPairsAll)
    \/ ForwardingAcceptsNothing
    \/ ForwardingAccepts
    \/ ForwardingClosedByOwner
    \/ \E p \in DOMAIN pairs : RemoteConnectCompletes(p)
    \/ \E p \in DOMAIN pairs : ClientSends(p, MaxData)
    \/ \E p \in DOMAIN pairs : ClientShutsDown(p)
    \/ \E p \in DOMAIN pairs : RemoteSends(p, MaxData)
    \/ \E p \in DOMAIN pairs : RemoteShutsDown(p)
    \/ \E p \in DOMAIN pairs : ClientRead(p)
    \/ \E p \in DOMAIN pairs : ClientReadEof(p)
    \/ \E p \in DOMAIN pairs : ClientFails(p)
    \/ \E p \in DOMAIN pairs : ClientWrite(p)
    \/ \E p \in DOMAIN pairs : RemoteRead(p)
    \/ \E p \in DOMAIN pairs : RemoteReadEof(p)
    \/ \E p \in DOMAIN pairs : RemoteFails(p)
    \/ \E p \in DOMAIN pairs : RemoteWrite(p)
    \/ PeerConnects(MaxConnsAll)
    \/ PathRemoved
    \/ TerminatorAcceptsNothing
    \/ TerminatorAccepts
    \/ \E i \in DOMAIN conns : PeerSends(i)
    \/ \E i \in DOMAIN conns : PeerShutsDown(i)
    \/ \E i \in DOMAIN conns : ConnRead(i)
    \/ \E i \in DOMAIN conns : ConnReadEof(i)

Spec == Init /\ [][Next]_vars

\* The termination protocol: control connections, and the admission of clients.
NextTerm ==
    \/ ClientConnects(MaxPairsAll)
    \/ ForwardingAcceptsNothing
    \/ ForwardingAccepts
    \/ ForwardingClosedByOwner
    \/ PeerConnects(MaxConns)
    \/ PathRemoved
    \/ TerminatorAcceptsNothing
    \/ TerminatorAccepts
    \/ \E i \in DOMAIN conns : PeerSends(i)
    \/ \E i \in DOMAIN conns : PeerShutsDown(i)
    \/ \E i \in DOMAIN conns : ConnRead(i)
    \/ \E i \in DOMAIN conns : ConnReadEof(i)

SpecTerm == Init /\ [][NextTerm]_vars

\* The forwarding: the listener and the forwarded connections.
NextRelay ==
    \/ ClientConnects(MaxPairs)
    \/ ForwardingAcceptsNothing
    \/ ForwardingAccepts
    \/ ForwardingClosedByOwner
    \/ \E p \in DOMAIN pairs : RemoteConnectCompletes(p)
    \/ \E p \in DOMAIN pairs : ClientSends(p, MaxData)
    \/ \E p \in DOMAIN pairs : ClientShutsDown(p)
    \/ \E p \in DOMAIN pairs : RemoteSends(p, MaxData)
    \/ \E p \in DOMAIN pairs : RemoteShutsDown(p)
    \/ \E p \in DOMAIN pairs : ClientRead(p)
    \/ \E p \in DOMAIN pairs : ClientReadEof(p)
    \/ \E p \in DOMAIN pairs : ClientFails(p)
    \/ \E p \in DOMAIN pairs : ClientWrite(p)
    \/ \E p \in DOMAIN pairs : RemoteRead(p)
    \/ \E p \in DOMAIN pairs : RemoteReadEof(p)
    \/ \E p \in DOMAIN pairs : RemoteFails(p)
    \/ \E p \in DOMAIN pairs : RemoteWrite(p)

SpecRelay == Init /\ [][NextRelay]_vars

\* The buffers: one forwarded connection whose peers send up to MaxDataOne bytes.
NextBuffer ==
    \/ ClientConnects(MaxPairsAll)
    \/ ForwardingAcceptsNothing
    \/ ForwardingAccepts
    \/ ForwardingClosedByOwner
    \/ \E p \in DOMAIN pairs : RemoteConnectCompletes(p)
    \/ \E p \in DOMAIN pairs : ClientSends(p, MaxDataOne)
    \/ \E p \in DOMAIN pairs : ClientShutsDown(p)
    \/ \E p \in DOMAIN pairs : RemoteSends(p, MaxDataOne)
    \/ \E p \in DOMAIN pairs : RemoteShutsDown(p)
    \/ \E p \in DOMAIN pairs : ClientRead(p)
    \/ \E p \in DOMAIN pairs : ClientReadEof(p)
    \/ \E p \in DOMAIN pairs : ClientFails(p)
    \/ \E p \in DOMAIN pairs : ClientWrite(p)
    \/ \E p \in DOMAIN pairs : RemoteRead(p)
    \/ \E p \in DOMAIN pairs : RemoteReadEof(p)
    \/ \E p \in DOMAIN pairs : RemoteFails(p)
    \/ \E p \in DOMAIN pairs : RemoteWrite(p)

SpecBuffer == Init /\ [][NextBuffer]_vars

\* Failing forwarded connections next to the rest: two forwarded connections
\* carrying the clients' data, and a control connection.
NextFailure ==
    \/ ClientConnects(MaxPairs)
    \/ ForwardingAccepts
    \/ \E p \in DOMAIN pairs : RemoteConnectCompletes(p)
    \/ \E p \in DOMAIN pairs : ClientSends(p, MaxData)
    \/ \E p \in DOMAIN pairs : ClientRead(p)
    \/ \E p \in DOMAIN pairs : ClientFails(p)
    \/ \E p \in DOMAIN pairs : RemoteFails(p)
    \/ \E p \in DOMAIN pairs : RemoteWrite(p)
    \/ PeerConnects(MaxConnsAll)
    \/ TerminatorAccepts
    \/ \E i \in DOMAIN conns : PeerSends(i)
    \/ \E i \in DOMAIN conns : ConnRead(i)

SpecFailure == Init /\ [][NextFailure]_vars

\* ======================================================= loop life cycle
\* A thread is "running" while it executes asyncore.loop's `while map:` loop,
\* "exiting" once it has found the map empty and left the loop, and "dead" when
\* it has ended; Thread.is_alive() holds until then.
is_alive(t) == threads[t] # "dead"

SetStarter(s, st) == starters' = [starters EXCEPT ![s] = st]

\* PortForwarding.__init__ up to the call of ensure_io_loop_runs: create_socket
\* registers the dispatcher in socket_map; bind; listen.
PortForwarding_init(s) ==
    /\ starters[s].pc = "idle"
    /\ socket_map' = socket_map \cup {s}
    /\ SetStarter(s, [starters[s] EXCEPT !.pc = "read"])
    /\ UNCHANGED <<IO_LOOP_THREAD, threads>>
    /\ UNCHANGED ioVars
    /\ UNCHANGED bindVars

\* ensure_io_loop_runs: thread = cls.IO_LOOP_THREAD
EnsureReads(s) ==
    /\ starters[s].pc = "read"
    /\ SetStarter(s, [pc |-> "check", thread |-> IO_LOOP_THREAD])
    /\ UNCHANGED <<socket_map, IO_LOOP_THREAD, threads>>
    /\ UNCHANGED ioVars
    /\ UNCHANGED bindVars

\* ensure_io_loop_runs: if thread is not None and thread.is_alive(): return
EnsureChecks(s) ==
    /\ starters[s].pc = "check"
    /\ SetStarter(s, [starters[s] EXCEPT !.pc =
            IF starters[s].thread # 0 /\ is_alive(starters[s].thread)
            THEN "done" ELSE "start"])
    /\ UNCHANGED <<socket_map, IO_LOOP_THREAD, threads>>
    /\ UNCHANGED ioVars
    /\ UNCHANGED bindVars

\* ensure_io_loop_runs: thread = Thread(target=loop, ...); thread.start()
EnsureStarts(s) ==
    /\ starters[s].pc = "start"
    /\ threads' = Append(threads, "running")
    /\ SetStarter(s, [pc |-> "store", thread |-> Len(threads) + 1])
    /\ UNCHANGED <<socket_map, IO_LOOP_THREAD>>
    /\ UNCHANGED ioVars
    /\ UNCHANGED bindVars

\* ensure_io_loop_runs: cls.IO_LOOP_THREAD = thread
EnsureStores(s) ==
    /\ starters[s].pc = "store"
    /\ IO_LOOP_THREAD' = starters[s].thread
    /\ SetStarter(s, [starters[s] EXCEPT !.pc = "done"])
    /\ UNCHANGED <<socket_map, threads>>
    /\ UNCHANGED ioVars
    /\ UNCHANGED bindVars

\* The owner calls close() on the PortForwarding it has constructed.
OwnerCloses(s) ==
    /\ starters[s].pc = "done"
    /\ s \in socket_map
    /\ socket_map' = socket_map \ {s}
    /\ UNCHANGED <<IO_LOOP_THREAD, threads, starters>>
    /\ UNCHANGED ioVars
    /\ UNCHANGED bindVars

\* asyncore.loop, `while map:` with a non-empty map: poll() dispatches a callback
\* that closes dispatcher d (a handle_close reached from a secret match or from
\* handle_error).
LoopClosesDispatcher(t, d) ==
    /\ threads[t] = "running"
    /\ d \in socket_map
    /\ socket_map' = socket_map \ {d}
    /\ UNCHANGED <<IO_LOOP_THREAD, threads, starters>>
    /\ UNCHANGED ioVars
    /\ UNCHANGED bindVars

\* Mutant: the loop goes on polling an empty map.
LoopKeepsPolling(t) ==
    /\ threads[t] = "running"
    /\ socket_map = {}
    /\ UNCHANGED vars

\* asyncore.loop, `while map:` with an empty map: the loop is left.
LoopObservesEmpty(t) ==
    /\ threads[t] = "running"
    /\ socket_map = {}
    /\ threads' = [threads EXCEPT ![t] = "exiting"]
    /\ UNCHANGED <<socket_map, IO_LOOP_THREAD, starters>>
    /\ UNCHANGED ioVars
    /\ UNCHANGED bindVars

\* The thread that has left asyncore.loop ends.
LoopThreadEnds(t) ==
    /\ threads[t] = "exiting"
    /\ threads' = [threads EXCEPT ![t] = "dead"]
    /\ UNCHANGED <<socket_map, IO_LOOP_THREAD, starters>>
    /\ UNCHANGED ioVars
    /\ UNCHANGED bindVars

NextLoop ==
    \/ \E s \in DOMAIN starters : PortForwarding_init(s)
    \/ \E s \in DOMAIN starters : EnsureReads(s)
    \/ \E s \in DOMAIN starters : EnsureChecks(s)
    \/ \E s \in DOMAIN starters : EnsureStarts(s)
    \/ \E s \in DOMAIN starters : EnsureStores(s)
    \/ \E s \in DOMAIN starters : OwnerCloses(s)
    \/ \E t \in DOMAIN threads, d \in socket_map : LoopClosesDispatcher(t, d)
    \/ \E t \in DOMAIN threads : LoopObservesEmpty(t)
    \/ \E t \in DOMAIN threads : LoopThreadEnds(t)

SpecLoop == Init /\ [][NextLoop]_vars

\* A thread in asyncore.loop gets back to `while map:` (poll() returns after its
\* timeout at the latest), and a thread that has left the loop ends.
LoopFairness ==
    \A t \in 1..MaxStarters :
        /\ WF_vars(t \in DOMAIN threads /\ LoopObservesEmpty(t))
        /\ WF_vars(t \in DOMAIN threads /\ LoopThreadEnds(t))

SpecLoopLive == SpecLoop /\ LoopFairness

\* ---- the terminator and the loop
\* In socket_map a PortForwarding is the number of the thread that constructs
\* it, the PortForwardingTerminator is TerminatorFd, and the i-th
\* ConnectionToTerminator is ConnFd(i).
TerminatorFd == 0

ConnFd(i) == 0 - i

\* No PortForwardingTerminator has been constructed yet.
InitChannel ==
    /\ secret \in Secrets
    /\ forwarding = "listening"
    /\ terminator = "closed"
    /\ sockfile = FALSE
    /\ fwdPending = 0
    /\ termPending = 0
    /\ conns = <<>>
    /\ pairs = <<>>
    /\ order = <<>>
    /\ shutdowns = 0
    /\ fwdGone = 0
    /\ termGone = 0
    /\ InitLoopIdle
    /\ InitBindIdle

\* Mutant: the constructor of the terminator starts a loop thread as well.
PortForwardingTerminator_init_starts_loop ==
    /\ terminator = "closed" /\ shutdowns = 0 /\ ~sockfile
    /\ \E s \in DOMAIN starters : starters[s].pc = "done"
    /\ terminator' = "listening"
    /\ sockfile' = TRUE
    /\ socket_map' = socket_map \cup {TerminatorFd}
    /\ threads' = Append(threads, "running")
    /\ IO_LOOP_THREAD' = Len(threads) + 1
    /\ UNCHANGED starters
    /\ UNCHANGED <<secret, forwarding, fwdPending, termPending, conns, pairs, order,
                   shutdowns, fwdGone, termGone>>
    /\ UNCHANGED bindVars

\* PortForwardingTerminator.__init__, given a PortForwarding as socket_to_close:
\* create_socket registers the dispatcher in socket_map; bind creates
\* socket_path; listen.
PortForwardingTerminator_init ==
    /\ terminator = "closed" /\ shutdowns = 0 /\ ~sockfile
    /\ \E s \in DOMAIN starters : starters[s].pc = "done"
    /\ terminator' = "listening"
    /\ sockfile' = TRUE
    /\ socket_map' = socket_map \cup {TerminatorFd}
    /\ UNCHANGED <<IO_LOOP_THREAD, threads, starters>>
    /\ UNCHANGED <<secret, forwarding, fwdPending, termPending, conns, pairs, order,
                   shutdowns, fwdGone, termGone>>
    /\ UNCHANGED bindVars

\* asyncore.loop in thread t dispatches PortForwardingTerminator.handle_accept and
\* accept() returns a connection: the ConnectionToTerminator registers itself.
LoopTerminatorAccepts(t) ==
    /\ threads[t] = "running"
    /\ TerminatorFd \in socket_map
    /\ terminator = "listening"
    /\ termPending > 0
    /\ termPending' = termPending - 1
    /\ conns' = Append(conns, PortForwardingTerminator_new_connection([wire |-> <<>>, eof |-> FALSE]))
    /\ socket_map' = socket_map \cup {ConnFd(Len(conns) + 1)}
    /\ UNCHANGED <<IO_LOOP_THREAD, threads, starters>>
    /\ UNCHANGED <<secret, forwarding, terminator, sockfile, fwdPending, pairs, order,
                   shutdowns, fwdGone, termGone>>
    /\ UNCHANGED bindVars

\* asyncore.loop in thread t dispatches a callback that reaches
\* PortForwardingTerminator.handle_close (a control connection has the secret).
LoopTerminatorCloses(t) ==
    /\ threads[t] = "running"
    /\ TerminatorFd \in socket_map
    /\ \E i \in DOMAIN conns : conns[i].state = "open"
    /\ LET w == PortForwardingTerminator_handle_close(World) IN
          /\ terminator' = w.terminator
          /\ sockfile' = w.sockfile
          /\ shutdowns' = w.shutdowns
    /\ socket_map' = socket_map \ {TerminatorFd}
    /\ UNCHANGED <<IO_LOOP_THREAD, threads, starters>>
    /\ UNCHANGED <<secret, forwarding, fwdPending, termPending, conns, pairs, order,
                   fwdGone, termGone>>
    /\ UNCHANGED bindVars

\* asyncore.loop in thread t dispatches a callback of control connection i that
\* reaches its handle_close.
LoopConnectionCloses(t, i) ==
    /\ threads[t] = "running"
    /\ ConnFd(i) \in socket_map
    /\ conns' = [conns EXCEPT ![i] = ConnectionToTerminator_handle_close(conns[i])]
    /\ socket_map' = socket_map \ {ConnFd(i)}
    /\ UNCHANGED <<IO_LOOP_THREAD, threads, starters>>
    /\ UNCHANGED <<secret, forwarding, terminator, sockfile, fwdPending, termPending,
                   pairs, order, shutdowns, fwdGone, termGone>>
    /\ UNCHANGED bindVars

\* The loop life cycle with a terminator and its control connection.
NextChannel ==
    \/ \E s \in DOMAIN starters : PortForwarding_init(s)
    \/ \E s \in DOMAIN starters : EnsureReads(s)
    \/ \E s \in DOMAIN starters : EnsureChecks(s)
    \/ \E s \in DOMAIN starters : EnsureStarts(s)
    \/ \E s \in DOMAIN starters : EnsureStores(s)
    \/ \E s \in DOMAIN starters : OwnerCloses(s)
    \/ \E t \in DOMAIN threads, d \in DOMAIN starters : LoopClosesDispatcher(t, d)
    \/ \E t \in DOMAIN threads : LoopObservesEmpty(t)
    \/ \E t \in DOMAIN threads : LoopThreadEnds(t)
    \/ PortForwardingTerminator_init
    \/ PeerConnects(MaxConnsAll)
    \/ \E t \in DOMAIN threads : LoopTerminatorAccepts(t)
    \/ \E t \in DOMAIN threads : LoopTerminatorCloses(t)
    \/ \E t \in DOMAIN threads, i \in DOMAIN conns : LoopConnectionCloses(t, i)

SpecChannel == InitChannel /\ [][NextChannel]_vars

\* ============================================================== bind part
\* PortForwarding.__init__ up to listen(), one action per system call, with other
\* processes binding and releasing ports of local_ip in between.  binder.pc is the
\* statement reached, binder.port the port the socket is bound to (0: unbound),
\* binder.registered whether create_socket has put the dispatcher in socket_map.
Ports == 1..MaxPort

\* socket.bind((local_ip, port)) with the ports in `used` taken: the ports the
\* socket may end up bound to; none when bind raises socket.error.  Port 0 asks
\* the operating system for any free port.
bind(port, used) == IF port = 0 THEN Ports \ used ELSE {port} \ used

\* Mutant: the except branch binds the preferred port once more.
PortForwarding_fallback_port_same(preferred_local_port) == preferred_local_port

\* The port of the bind in the except branch: self.bind((local_ip, 0)).
PortForwarding_fallback_port(preferred_local_port) == 0

\* PortForwarding.listen_port: self.socket.getsockname()[1]
listen_port == binder.port

\* A PortForwarding is about to be constructed with some preferred_local_port
\* (0, the default, for none) while some ports are taken; nothing listens yet.
InitBind ==
    /\ secret \in Secrets
    /\ forwarding = "closed"
    /\ terminator = "closed"
    /\ sockfile = FALSE
    /\ fwdPending = 0
    /\ termPending = 0
    /\ conns = <<>>
    /\ pairs = <<>>
    /\ order = <<>>
    /\ shutdowns = 0
    /\ fwdGone = 0
    /\ termGone = 0
    /\ InitLoopIdle
    /\ inUse \in SUBSET Ports
    /\ \E preferred_local_port \in 0..MaxPort :
          binder = [pc |-> "create", preferred_local_port |-> preferred_local_port,
                    port |-> 0, registered |-> FALSE]

BindFrame ==
    /\ UNCHANGED <<secret, terminator, sockfile, fwdPending, termPending, conns, pairs,
                   order, shutdowns, fwdGone, termGone>>
    /\ UNCHANGED loopVars

\* dispatcher.__init__, create_socket, set_reuse_addr
BindCreatesSocket ==
    /\ binder.pc = "create"
    /\ binder' = [binder EXCEPT !.pc = "bind", !.registered = TRUE]
    /\ UNCHANGED <<forwarding, inUse>>
    /\ BindFrame

\* try: self.bind((local_ip, preferred_local_port)); a socket.error leads to the
\* except branch.
BindPreferred ==
    /\ binder.pc = "bind"
    /\ LET ok == bind(binder.preferred_local_port, inUse) IN
       IF ok = {}
       THEN binder' = [binder EXCEPT !.pc = "fallback"]
       ELSE \E q \in ok : binder' = [binder EXCEPT !.pc = "listen", !.port = q]
    /\ UNCHANGED <<forwarding, inUse>>
    /\ BindFrame

\* except SocketError: self.bind((local_ip, 0)); a socket.error leaves __init__.
BindFallback ==
    /\ binder.pc = "fallback"
    /\ LET ok == bind(PortForwarding_fallback_port(binder.preferred_local_port), inUse) IN
       IF ok = {}
       THEN binder' = [binder EXCEPT !.pc = "failed"]
       ELSE \E q \in ok : binder' = [binder EXCEPT !.pc = "listen", !.port = q]
    /\ UNCHANGED <<forwarding, inUse>>
    /\ BindFrame

\* self.listen(backlog)
BindListens ==
    /\ binder.pc = "listen"
    /\ forwarding' = "listening"
    /\ binder' = [binder EXCEPT !.pc = "done"]
    /\ UNCHANGED inUse
    /\ BindFrame

\* Another socket is bound to a free port of local_ip.
OtherBinds(q) ==
    /\ q \notin inUse
    /\ q # binder.port
    /\ inUse' = inUse \cup {q}
    /\ UNCHANGED <<forwarding, binder>>
    /\ BindFrame

\* Another socket bound to a port of local_ip is closed.
OtherReleases(q) ==
    /\ q \in inUse
    /\ inUse' = inUse \ {q}
    /\ UNCHANGED <<forwarding, binder>>
    /\ BindFrame

NextBind ==
    \/ BindCreatesSocket
    \/ BindPreferred
    \/ BindFallback
    \/ BindListens
    \/ \E q \in Ports : OtherBinds(q)
    \/ \E q \in Ports : OtherReleases(q)

SpecBind == InitBind /\ [][NextBind]_vars

\* ================================================================ claims
Listening == forwarding = "listening" /\ terminator = "listening" /\ sockfile

AllShutDown == forwarding = "closed" /\ terminator = "closed" /\ ~sockfile

\* The control address was removed by somebody else while the terminator was
\* listening: remove(sockname) in its handle_close can only raise from then on.
AddressRemovedByOthers == terminator = "listening" /\ ~sockfile

\* Input that is neither the secret nor a strict prefix of it.
Mismatch(buf) == buf # secret /\ ~IsStrictPrefix(buf, secret)

\* Control connection i has just read data (recv_buf has grown in this step).
HasRead(i) == conns'[i].recv_buf # conns[i].recv_buf

ListenersUntouched ==
    forwarding' = forwarding /\ terminator' = terminator /\ sockfile' = sockfile

C1_AllClosedOnMatch ==
    \A i \in DOMAIN conns :
        conns[i].recv_buf = secret =>
            /\ conns[i].state = "closed"
            /\ AddressRemovedByOthers \/ AllShutDown

C1_NothingAcceptedLater ==
    /\ forwarding = "closed" => forwarding' = "closed" /\ Len(pairs') = Len(pairs)
    /\ terminator = "closed" => terminator' = "closed" /\ Len(conns') = Len(conns)

\* C1: whenever the input accumulated on a control connection equals the secret
\* (however its bytes were split over the reads), that connection is closed and,
\* the control address being in place when the read happens, the PortForwarding
\* is closed, the PortForwardingTerminator is closed and its address removed;
\* from then on no forwarded and no control connection is accepted.
C1_ExactSecretTermination ==
    [](C1_AllClosedOnMatch) /\ [][C1_NothingAcceptedLater]_vars

\* C1 witness: a two-byte secret that arrived in two reads has shut everything down.
C1_Witness ==
    \E i \in DOMAIN conns :
        /\ Len(secret) = 2
        /\ conns[i].recv_buf = secret
        /\ conns[i].reads = 2
        /\ conns[i].state = "closed"
        /\ AllShutDown
        /\ Len(order) = 3

Before(a, b, s) == \A i, j \in DOMAIN s : s[i] = a /\ s[j] = b => i < j

\* C2: in a handle_read that matches the secret, the PortForwarding is closed
\* before the PortForwardingTerminator, which is closed before the connection.
C2_ShutdownOrder ==
    /\ Before("PortForwarding", "PortForwardingTerminator", order)
    /\ Before("PortForwardingTerminator", "ConnectionToTerminator", order)

\* C3: the read that makes the accumulated input longer than the secret closes
\* that control connection and changes neither listener nor the control address.
C3_OverflowRejection ==
    [][\A i \in DOMAIN conns :
          (Len(conns[i].recv_buf) <= Len(secret) /\ Len(conns'[i].recv_buf) > Len(secret))
          => (conns'[i].state = "closed" /\ ListenersUntouched)]_vars

\* C3 witness: the secret followed by one more byte has closed the connection,
\* and both listeners are still listening with the address in place.
C3_Witness ==
    \E i \in DOMAIN conns :
        /\ IsStrictPrefix(secret, conns[i].recv_buf)
        /\ conns[i].state = "closed"
        /\ order = <<"ConnectionToTerminator">>
        /\ Listening

\* C4 as claimed: a read that leaves input which is neither the secret nor a
\* strict prefix of it closes the control connection and leaves the listeners alone.
C4_MismatchRejection ==
    [][\A i \in DOMAIN conns :
          (HasRead(i) /\ Mismatch(conns'[i].recv_buf))
          => (conns'[i].state = "closed" /\ ListenersUntouched)]_vars

\* C4 amended: a read that leaves input which is neither the secret nor a strict
\* prefix of it leaves the listeners alone, and closes the control connection
\* exactly when that input is longer than the secret; wrong input that is no
\* longer than the secret leaves the connection open.
C4_MismatchClosesOnlyOnOverflow ==
    [][\A i \in DOMAIN conns :
          (HasRead(i) /\ Mismatch(conns'[i].recv_buf))
          => /\ ListenersUntouched
             /\ conns'[i].state = "closed" <=> Len(conns'[i].recv_buf) > Len(secret)]_vars

\* C4 witness: wrong input as long as the secret has been read and the
\* connection is still open.
C4_Witness ==
    \E i \in DOMAIN conns :
        /\ Mismatch(conns[i].recv_buf)
        /\ Len(conns[i].recv_buf) = Len(secret)
        /\ conns[i].state = "open"
        /\ Listening

Wired(pr) == pr.client_buddy = "to_remote_host" /\ pr.remote_buddy = "to_client"

\* The bytes a peer has sent once it has sent n of them.
Sent(n) == [k \in 1..n |-> k]

\* C5: every endpoint registered with the loop has its buddy: a ConnectionToClient
\* points to its ConnectionToRemoteHost and the other way round.
C5_PairingIntegrity ==
    \A p \in DOMAIN pairs :
        /\ pairs[p].client = "open" => pairs[p].client_buddy = "to_remote_host"
        /\ pairs[p].remote = "open" => pairs[p].remote_buddy = "to_client"

\* C6: the two endpoints of a pair (each the other's buddy) are both open or
\* both closed after every callback, whichever of them closed first and why.
C6_CascadingClose ==
    \A p \in DOMAIN pairs :
        Wired(pairs[p]) => (pairs[p].client = "closed" <=> pairs[p].remote = "closed")

\* C6 witness: one pair was closed from the client side (end of stream) and
\* another from the remote side (a failing read or write), both entirely.
C6_Witness ==
    \E p, q \in DOMAIN pairs :
        /\ Wired(pairs[p]) /\ Wired(pairs[q])
        /\ pairs[p].cause = "client_eof" /\ pairs[q].cause = "remote_error"
        /\ pairs[p].client = "closed" /\ pairs[p].remote = "closed"
        /\ pairs[q].client = "closed" /\ pairs[q].remote = "closed"

\* C7: what a peer of a forwarded connection has received is always a prefix of
\* what the other peer has sent, and it is all of it once the sender has closed
\* its end and the forwarder has read that end of stream (with the outbound
\* connection established, for the direction towards the remote host).
C7_ByteFidelity ==
    \A p \in DOMAIN pairs :
        /\ IsPrefix(pairs[p].rGot, Sent(pairs[p].cSent))
        /\ IsPrefix(pairs[p].cGot, Sent(pairs[p].rSent))
        /\ (Wired(pairs[p]) /\ pairs[p].cause = "client_eof" /\ pairs[p].rsock = "established")
              => pairs[p].rGot = Sent(pairs[p].cSent)
        /\ (Wired(pairs[p]) /\ pairs[p].cause = "remote_eof")
              => pairs[p].cGot = Sent(pairs[p].rSent)

Running == {t \in DOMAIN threads : threads[t] = "running"}

\* C8: at most one thread executes asyncore.loop at any time.
C8_SingleLoop == Cardinality(Running) <= 1

\* C9: once the constructor of a PortForwarding has returned, and while that
\* dispatcher is registered, some thread executes asyncore.loop.
C9_LoopDrivesListener ==
    \A s \in DOMAIN starters :
        (starters[s].pc = "done" /\ s \in socket_map) => Running # {}

\* C10: a step that closes the PortForwarding (close() by its owner, a secret
\* match, or handle_error) leaves every forwarded connection as it was:
\* endpoints, buddies, buffers and what is in flight.
C10_ListenerShutdownFrame ==
    [][(forwarding = "listening" /\ forwarding' = "closed")
          => \A p \in DOMAIN pairs : pairs'[p] = pairs[p]]_vars

\* C10 witness: a secret match has closed the PortForwarding while a forwarded
\* connection was open with a byte in its buffer; the pair is open and the byte
\* is still there.
C10_Witness ==
    \E p \in DOMAIN pairs :
        /\ forwarding = "closed"
        /\ "PortForwarding" \in {order[k] : k \in DOMAIN order}
        /\ Wired(pairs[p])
        /\ pairs[p].client = "open" /\ pairs[p].remote = "open"
        /\ pairs[p].to_remote_host # <<>>

\* C11: a callback of an endpoint of a paired forwarded connection whose recv()
\* or send() fails closes both endpoints of that pair, and changes nothing else:
\* not the PortForwarding, not the PortForwardingTerminator and its address, no
\* control connection, no other pair (endpoints, buffers, bytes in flight).
C11_FailureIsolation ==
    [][\A p \in DOMAIN pairs :
          (/\ Wired(pairs[p])
           /\ pairs[p].client = "open" /\ pairs[p].remote = "open"
           /\ pairs[p].cause = "none"
           /\ pairs'[p].cause \in {"client_error", "remote_error"})
          => /\ pairs'[p].client = "closed" /\ pairs'[p].remote = "closed"
             /\ \A q \in DOMAIN pairs : q # p => pairs'[q] = pairs[q]
             /\ Len(pairs') = Len(pairs)
             /\ ListenersUntouched
             /\ conns' = conns
             /\ fwdPending' = fwdPending /\ termPending' = termPending]_vars

\* C11 witness: a send or recv of the client-side endpoint of one pair has failed
\* and the pair is closed, while the other pair is open with a byte in its
\* buffer, a control connection is open with input, and both listeners listen.
C11_Witness ==
    \E p, q \in DOMAIN pairs : \E i \in DOMAIN conns :
        /\ p # q
        /\ Wired(pairs[p]) /\ pairs[p].cause = "client_error"
        /\ pairs[p].client = "closed" /\ pairs[p].remote = "closed"
        /\ Wired(pairs[q]) /\ pairs[q].client = "open" /\ pairs[q].remote = "open"
        /\ pairs[q].to_remote_host # <<>>
        /\ conns[i].state = "open" /\ conns[i].recv_buf # <<>>
        /\ Listening

\* C12: when the outbound connection for an accepted client cannot be opened,
\* the PortForwarding stays open and the ConnectionToClient is closed with
\* nothing relayed: in the handle_accept in which connect() raises, and in the
\* callback in which the loop reports that the pending connect has failed.
C12_UnreachableRemote ==
    [][/\ \A p \in DOMAIN pairs' :
             (p \notin DOMAIN pairs /\ pairs'[p].rsock = "failed")
             => /\ forwarding' = "listening"
                /\ pairs'[p].client = "closed"
       /\ \A p \in DOMAIN pairs :
             (pairs[p].cause = "none" /\ pairs'[p].cause = "connect_failed")
             => /\ forwarding' = forwarding
                /\ pairs'[p].client = "closed"
                /\ pairs'[p].cGot = <<>> /\ pairs'[p].rGot = <<>>]_vars

\* The call of bind that is being made succeeds for the preferred port.
PreferredAvailable ==
    binder.preferred_local_port # 0 /\ binder.preferred_local_port \notin inUse

C13_Bound ==
    /\ binder.pc = "done"
          => /\ forwarding = "listening"
             /\ listen_port # 0
             /\ listen_port = binder.port
             /\ listen_port \notin inUse
    /\ binder.pc = "failed"
          => /\ forwarding # "listening"
             /\ binder.port = 0

C13_BindStep ==
    /\ (binder.pc = "bind" /\ binder'.pc # "bind" /\ PreferredAvailable)
          => (binder'.pc = "listen" /\ binder'.port = binder.preferred_local_port)
    /\ (binder.pc = "bind" /\ binder'.pc = "fallback")
          => ~PreferredAvailable
    /\ (binder.pc = "fallback" /\ binder'.pc # "fallback")
          => IF Ports \ inUse # {}
             THEN binder'.pc = "listen" /\ binder'.port \in Ports \ inUse
             ELSE binder'.pc = "failed"

\* C13: __init__ binds the preferred port when one is given and it is free at
\* the bind; when that bind fails it binds a port the operating system chooses;
\* once it listens, listen_port is the port it is bound to, never 0; when the
\* second bind fails too, __init__ fails and nothing listens.
C13_BindFallback == [](C13_Bound) /\ [][C13_BindStep]_vars

\* C13 witness: a preferred port was given and taken, and the PortForwarding
\* listens on another port, which listen_port reports.
C13_Witness ==
    /\ binder.pc = "done"
    /\ forwarding = "listening"
    /\ binder.preferred_local_port # 0
    /\ listen_port # 0
    /\ listen_port # binder.preferred_local_port

\* What recv() has returned so far of the n bytes a peer has sent, `wire` being
\* the bytes not yet returned.
ReadSoFar(n, wire) == Take(Sent(n), n - Len(wire))

C14_Prefix ==
    \A p \in DOMAIN pairs :
        (pairs[p].client = "open" /\ pairs[p].remote = "open")
        => /\ pairs[p].rGot \o pairs[p].to_remote_host
                = ReadSoFar(pairs[p].cSent, pairs[p].cWire)
           /\ pairs[p].cGot \o pairs[p].to_client
                = ReadSoFar(pairs[p].rSent, pairs[p].rWire)

\* One step on a buffer and the bytes handed to its destination: bytes are
\* appended at the end and nothing is handed over, or the first k bytes are
\* handed over and removed.
BufferStep(buf, got, buf2, got2) ==
    \/ got2 = got /\ IsPrefix(buf, buf2)
    \/ \E k \in 0..Len(buf) : got2 = got \o Take(buf, k) /\ buf2 = Drop(buf, k)

C14_Fifo ==
    \A p \in DOMAIN pairs :
        /\ BufferStep(pairs[p].to_remote_host, pairs[p].rGot,
                      pairs'[p].to_remote_host, pairs'[p].rGot)
        /\ BufferStep(pairs[p].to_client, pairs[p].cGot,
                      pairs'[p].to_client, pairs'[p].cGot)

\* C14: while both endpoints of a pair are open, in each direction the bytes
\* handed to send() followed by the buffer are the bytes recv() has returned; a
\* handle_write whose send() accepts k bytes (0 and less than the buffer's length
\* included) removes the first k bytes of the buffer, and a handle_read appends.
C14_BufferPrefix == [](C14_Prefix) /\ [][C14_Fifo]_vars

\* C14 witness: of two bytes read from the client, the first has been handed to
\* the remote host's socket and the second is what is left in the buffer.
C14_Witness ==
    \E p \in DOMAIN pairs :
        /\ pairs[p].client = "open" /\ pairs[p].remote = "open"
        /\ pairs[p].cSent = 2 /\ pairs[p].cWire = <<>>
        /\ pairs[p].rGot = <<1>>
        /\ pairs[p].to_remote_host = <<2>>

\* C15: once the close algorithm of an endpoint has run, the buddy reference of
\* both endpoints of the pair is cleared, and running the close algorithm of
\* either endpoint again raises no error.
C15_IdempotentClose ==
    \A p \in DOMAIN pairs :
        pairs[p].cause # "none"
        => /\ pairs[p].client_buddy = "None" /\ pairs[p].remote_buddy = "None"
           /\ ~ConnectionToClient_handle_close_raises(pairs[p])
           /\ ~ConnectionToRemoteHost_handle_close_raises(pairs[p])

\* C16: whatever the control connections receive, PortForwardingTerminator's
\* handle_close (the shutdown of the channel with the removal of its address) is
\* called at most once, and never once the channel is shut down.
C16_ShutdownAtMostOnce ==
    /\ shutdowns <= 1
    /\ terminator = "closed" => shutdowns = 1

\* C17: a read that completes the secret while the control address is already
\* gone from the filesystem (so that its removal fails) still closes the
\* PortForwarding.
C17_MatchSurvivesFailingRemoval ==
    [][\A i \in DOMAIN conns :
          (HasRead(i) /\ conns'[i].recv_buf = secret /\ AddressRemovedByOthers)
          => forwarding' = "closed"]_vars

\* C18: a handle_accept whose accept() returns None (the peer is gone) creates
\* no pair, respectively no control connection, and leaves its listener
\* listening and everything else as it was.
C18_AcceptRaceIgnored ==
    [][/\ fwdGone' # fwdGone
          => /\ forwarding = "listening" /\ forwarding' = "listening"
             /\ pairs' = pairs /\ conns' = conns
             /\ terminator' = terminator /\ sockfile' = sockfile
             /\ termPending' = termPending /\ order' = order
       /\ termGone' # termGone
          => /\ terminator = "listening" /\ terminator' = "listening"
             /\ sockfile' = sockfile
             /\ conns' = conns /\ pairs' = pairs
             /\ forwarding' = forwarding
             /\ fwdPending' = fwdPending /\ order' = order]_vars

\* C18 witness: each listener has had an accept() return None, both listen, and
\* the terminator has accepted a control connection since.
C18_Witness ==
    /\ fwdGone = 1 /\ pairs = <<>>
    /\ termGone = 1 /\ Len(conns) = 1
    /\ Listening

C19_DisconnectOnPrefix ==
    \A i \in DOMAIN conns :
        (/\ conns[i].state = "open" /\ conns'[i].state = "closed"
         /\ IsStrictPrefix(conns'[i].recv_buf, secret))
        => ListenersUntouched /\ shutdowns' = shutdowns

C19_ClosedIsTerminal ==
    /\ \A i \in DOMAIN conns : conns[i].state = "closed" => conns'[i] = conns[i]
    /\ (\/ shutdowns' # shutdowns
        \/ terminator' # terminator
        \/ "PortForwarding" \in {order'[k] : k \in DOMAIN order'} /\ forwarding' # forwarding)
       => \E i \in DOMAIN conns :
             conns[i].state = "open" /\ HasRead(i) /\ conns'[i].recv_buf = secret

\* C19: a control connection that is closed while its input is a strict prefix of
\* the (non-empty) secret, the empty input included, shuts down neither listener;
\* a closed control connection never changes again, and every shutdown of a
\* listener that comes from a control connection comes from the read of an open
\* one that completes the secret.
C19_VerifierTerminal == [][C19_DisconnectOnPrefix /\ C19_ClosedIsTerminal]_vars

\* C19 witness: the peer has sent the first byte of a two-byte secret and
\* disconnected; the connection is closed and both listeners still listen.
C19_Witness ==
    \E i \in DOMAIN conns :
        /\ Len(secret) = 2
        /\ conns[i].recv_buf = <<secret[1]>>
        /\ conns[i].eof /\ conns[i].state = "closed"
        /\ order = <<"ConnectionToTerminator">>
        /\ shutdowns = 0
        /\ Listening

C20_LeavesOnlyWhenEmpty ==
    \A t \in DOMAIN threads :
        (threads[t] = "running" /\ threads'[t] # "running") => socket_map = {}

AllLoopsEnded == \A t \in DOMAIN threads : threads[t] = "dead"

\* C20: a thread leaves asyncore.loop only when it finds socket_map empty, and
\* once socket_map stays empty (every listener, forwarded and control connection
\* is closed) every loop thread ends, so that joining the threads returns.
C20_LoopExit ==
    /\ [][C20_LeavesOnlyWhenEmpty]_vars
    /\ (<>[](socket_map = {})) => <>[]AllLoopsEnded

\* C20 witness: a PortForwarding was constructed, the loop was started, every
\* dispatcher has been closed, and every loop thread has ended.
C20_Witness ==
    /\ \E s \in DOMAIN starters : starters[s].pc = "done"
    /\ Len(threads) >= 1
    /\ socket_map = {}
    /\ AllLoopsEnded

C21_Eligible ==
    /\ \A p \in DOMAIN pairs :
          /\ pairs[p].client = "open"
                => (ENABLED ClientWrite(p) <=> pairs[p].to_client # <<>>)
          /\ (pairs[p].remote = "open" /\ pairs[p].rsock = "established")
                => (ENABLED RemoteWrite(p) <=> pairs[p].to_remote_host # <<>>)
    /\ \A i \in DOMAIN conns : ~ConnectionToTerminator_writable(conns[i])

C21_WritesFromBuffer ==
    \A p \in DOMAIN pairs :
        /\ pairs'[p].cGot # pairs[p].cGot
              => (pairs[p].client = "open" /\ pairs[p].to_client # <<>>)
        /\ pairs'[p].rGot # pairs[p].rGot
              => (pairs[p].remote = "open" /\ pairs[p].to_remote_host # <<>>)

\* C21: an open endpoint of a forwarded connection gets a write callback exactly
\* when its outgoing buffer (to_client for the ConnectionToClient, to_remote_host
\* for the ConnectionToRemoteHost) is not empty, and bytes are only ever handed
\* to a socket out of a non-empty buffer; a ConnectionToTerminator is never
\* writable, so nothing is ever sent on a control connection.
C21_WriteEligibility == [](C21_Eligible) /\ [][C21_WritesFromBuffer]_vars

\* C21 witness: a forwarded connection has bytes for the remote host and none
\* for the client, so only its remote-side endpoint can get a write callback,
\* while a control connection has been closed for its input, unanswered.
C21_Witness ==
    \E p \in DOMAIN pairs : \E i \in DOMAIN conns :
        /\ pairs[p].client = "open" /\ pairs[p].remote = "open"
        /\ pairs[p].rsock = "established"
        /\ pairs[p].to_remote_host # <<>> /\ pairs[p].to_client = <<>>
        /\ ENABLED RemoteWrite(p) /\ ~ENABLED ClientWrite(p)
        /\ conns[i].state = "closed" /\ conns[i].recv_buf # <<>>

C22_ClosedTogether ==
    \A p \in DOMAIN pairs :
        (/\ Wired(pairs[p])
         /\ pairs[p].client = "open" /\ pairs[p].remote = "open"
         /\ pairs'[p].client = "closed" \/ pairs'[p].remote = "closed")
        => /\ pairs'[p].client = "closed" /\ pairs'[p].remote = "closed"
           /\ pairs'[p].to_remote_host = pairs[p].to_remote_host
           /\ pairs'[p].to_client = pairs[p].to_client
           /\ pairs'[p].rGot = pairs[p].rGot
           /\ pairs'[p].cGot = pairs[p].cGot

C22_NothingSentAfterClose ==
    \A p \in DOMAIN pairs :
        /\ pairs[p].remote = "closed" => pairs'[p].rGot = pairs[p].rGot
        /\ pairs[p].client = "closed" => pairs'[p].cGot = pairs[p].cGot

\* C22: the callback that closes one endpoint of a pair closes its buddy too,
\* whatever the buffers hold, and hands none of the buffered bytes to a socket;
\* nothing is handed to the socket of a closed endpoint afterwards, so what was
\* buffered at the close is never delivered.
C22_CloseDoesNotDrain == [][C22_ClosedTogether /\ C22_NothingSentAfterClose]_vars

\* C22 witness: the client has closed its end after sending; the pair is closed
\* although the outbound connection was established, and a byte read from the
\* client is still in to_remote_host, not handed to the remote host.
C22_Witness ==
    \E p \in DOMAIN pairs :
        /\ Wired(pairs[p]) /\ pairs[p].cause = "client_eof"
        /\ pairs[p].rsock = "established"
        /\ pairs[p].client = "closed" /\ pairs[p].remote = "closed"
        /\ pairs[p].to_remote_host # <<>>
        /\ pairs[p].rGot \o pairs[p].to_remote_host = Sent(pairs[p].cSent)

C23_Frame ==
    (terminator = "closed" /\ terminator' = "listening")
    => /\ TerminatorFd \in socket_map' /\ sockfile'
       /\ threads' = threads
       /\ IO_LOOP_THREAD' = IO_LOOP_THREAD
       /\ starters' = starters

C23_ServicedByLoop ==
    /\ Len(conns') > Len(conns) => Running # {}
    /\ Len(threads') > Len(threads)
          => \E s \in DOMAIN starters :
                starters[s].pc = "start" /\ starters'[s].pc = "store"

\* C23: the constructor of the PortForwardingTerminator registers the dispatcher,
\* binds and listens, and leaves the loop threads and IO_LOOP_THREAD as they
\* are; loop threads are only started by ensure_io_loop_runs, from the
\* constructor of a PortForwarding, and the terminator only accepts a connection
\* while such a thread executes asyncore.loop.
C23_TerminatorLeavesLoop == [][C23_Frame /\ C23_ServicedByLoop]_vars

\* C23 witness: the loop had been started and has ended; the terminator was
\* constructed afterwards and listens, registered, with a peer waiting in its
\* queue and no loop to accept it.
C23_Witness ==
    /\ terminator = "listening"
    /\ TerminatorFd \in socket_map
    /\ termPending > 0
    /\ conns = <<>>
    /\ Len(threads) >= 1
    /\ AllLoopsEnded

====
